---- MODULE Spec2Model ----
(***************************************************************************)
(* The image-generation request pipeline of mcp-openai.                    *)
(*                                                                         *)
(* One create-image request is followed from the entry of                  *)
(* handle_create_image to its return (or to the exception that leaves it). *)
(* Two revisions of the handler live in the repository and both are        *)
(* modelled; impl says which one serves the request:                       *)
(*   "tools" : src/mcp_server_openai/tools.py  (send_progress, retries)    *)
(*   "mgr"   : src/mcp_openai/mcp_server_openai/tools.py                   *)
(*             (NotificationManager, image download)                       *)
(* Both call LLMConnector.create_image (src/mcp_server_openai/llm.py),     *)
(* whose retry loop is modelled attempt by attempt.                        *)
(*                                                                         *)
(* Library semantics assumed: asyncio.CancelledError is a BaseException    *)
(* (not caught by "except Exception"); asyncio.TimeoutError is the builtin *)
(* TimeoutError (Python >= 3.11), so the deadline of anyio.fail_after is   *)
(* caught by "except (APITimeoutError, asyncio.TimeoutError)"; an anyio    *)
(* CancelScope(shield=True) holds a cancellation back until the scope is   *)
(* left, and the cancellation is then raised at the next await.            *)
(*                                                                         *)
(* Progress values are kept in units of 1/n (n = number of images), so     *)
(* that 50 + 50*(idx/n) is the integer 50*n + 50*idx.                      *)
(***************************************************************************)
EXTENDS Integers, Sequences, FiniteSets, TLC

\* ---------------------------------------------------------------- bounds
MaxN == 3

\* ------------------------------------------------------ program constants
MaxRetriesLimit == 5
DefaultMaxRetries == 3
DefaultTotal == 100

Impls == {"tools", "mgr"}
Models == {"dall-e-3", "dall-e-2"}
\* 512x512 and 256x256 take the same path as 1024x1024 in both handlers
Sizes == {"1024x1024", "1792x1024", "1024x1792"}
\* the progressToken of the request meta: absent, falsy (0 or ""), truthy
Tokens == {"none", "falsy", "truthy"}
\* what one provider attempt can end in
AttemptOutcomes == {"ok", "api_timeout", "deadline", "error"}

VARIABLES
    impl,              \* which handler revision serves the request
    arguments,         \* [model, size, n, max_retries] of the tool call
    progress_token,    \* element of Tokens
    h_pc,              \* position of handle_create_image
    h_out,             \* "running" | "returned" | "raised"
    h_exc,             \* exception that ended the handler's try body
    results,           \* content list of the handler (when raised: unused)
    events,            \* progress notifications handed to session.send_notification
    notification_mgr,  \* "none" | "open" | "closed"   (impl "mgr" only)
    cancel_requested,  \* the client has cancelled the request
    llm_pc,            \* "idle" | "attempt" | "sleep" | "returned" | "raised"
    llm_exc,           \* exception create_image raised, "none" otherwise
    current_retry,     \* llm.py: current_retry
    attempts,          \* provider calls issued by create_image
    outcomes,          \* outcome of each finished attempt, in order
    sleeps,            \* argument of calculate_backoff_delay for each backoff sleep
    idx,               \* images processed so far
    failed,            \* indices of the images whose processing failed
    \* --- one NotificationManager and the task that uses it
    nm_closed,         \* NotificationManager._closed
    nm_session,        \* "ok" | "none" | "no_send" : what self.session is
    nm_pc,             \* "off" | "idle" | "sending" | "cancelled"
    nm_call,           \* the current / last send_notification call
    nm_calls,          \* send_notification calls started so far
    nm_cancel,         \* the task calling send_notification has been cancelled
    \* --- one call of a pure function, its arguments and its result
    progress_call,     \* create_progress_notification / send_progress
    backoff_call,      \* calculate_backoff_delay
    codec_call,        \* compress_image_data / binary_search_quality
    response_call,     \* the provider response turned into the image-data list
    retry_call,        \* the delays of one create_image call that times out
    \* --- one LLMConnector, the OpenAIServer that owns it, and their callers
    connector,         \* LLMConnector: _closed, _closing, _close_event
    server,            \* OpenAIServer: _closed, _closing, _close_event
    close_call,        \* each LLMConnector.close() call: position and what it found
    shutdown_call,     \* each OpenAIServer.shutdown() call: position and what it found
    tool_request       \* each CallToolRequest given to _handle_tool_request

pipeline_vars == <<impl, arguments, progress_token, h_pc, h_out, h_exc, results,
                   events, notification_mgr, cancel_requested, llm_pc, llm_exc,
                   current_retry, attempts, outcomes, sleeps, idx, failed>>

notif_vars == <<nm_closed, nm_session, nm_pc, nm_call, nm_calls, nm_cancel>>

\* everything that is not the request pipeline
calc_vars == <<progress_call, backoff_call, codec_call, response_call, retry_call>>
close_vars == <<connector, server, close_call, shutdown_call, tool_request>>
other_vars == <<notif_vars, calc_vars, close_vars>>

vars == <<pipeline_vars, other_vars>>

llm_vars == <<llm_pc, llm_exc, current_retry, attempts, outcomes, sleeps>>
req_vars == <<impl, arguments, progress_token>>

\* ---------------------------------------------------------------- helpers
Last(s) == s[Len(s)]

n == arguments.n

\* max_retries as create_image receives it: "tools" passes the argument,
\* "mgr" does not pass it and the default applies
max_retries == IF impl = "tools" THEN arguments.max_retries ELSE DefaultMaxRetries

\* a progress value p (0..100) in units of 1/n
Units(p) == p * n

\* Python's builtins on two numbers: max(a, b) is a unless b > a,
\* min(a, b) is a unless b < a
PyMax(a, b) == IF b > a THEN b ELSE a
PyMin(a, b) == IF b < a THEN b ELSE a

\* the lower bound forgotten: min(progress, total) alone
ClampUpperOnly(p, total) == PyMin(p, total)

\* create_progress_notification: max(0.0, min(progress, total))
Clamp(p, total) == PyMax(0, PyMin(p, total))

create_progress_notification(p, is_final) ==
    [progress |-> Clamp(p, Units(DefaultTotal)), total |-> Units(DefaultTotal),
     final |-> is_final]

\* "if not progress_token: return" (send_progress) and "if progress_token:"
\* (handler "mgr"): only a truthy token leads to notifications
TokenUsed == progress_token = "truthy"

\* safe_send_notification(session, notification) is imported by tools.py from
\* .notifications but is not among the sources; after the channel contract it
\* hands the notification to the session and never raises to its caller
safe_send_notification(evs, ev) == Append(evs, ev)

\* tools.py send_progress: nothing without a truthy token, else clamp, build
\* the notification and send it.  The notification on the wire has no
\* terminal flag (create_progress_notification drops is_final); the field
\* final records that the handler sends the event as its terminal one.
send_progress(evs, p, terminal) ==
    IF ~TokenUsed THEN evs
    ELSE safe_send_notification(evs,
             create_progress_notification(Clamp(p, Units(DefaultTotal)), terminal))

\* ----------------------------------------------- NotificationManager state
\* a notification as send_notification looks at it: its kind and, for a
\* progress notification, the types of params.progressToken / progress / total
Notifications ==
    [kind : {"progress"}, token : {"str", "int", "other"},
     progress : {"num", "other"}, total : {"num", "none", "other"}]
    \cup {[kind |-> "other", token |-> "str", progress |-> "num", total |-> "num"]}

\* what "await self.session.send_notification(notification)" can end in
TransportOutcomes ==
    {"ok", "BrokenResourceError", "ClosedResourceError", "ValidationError",
     "Exception"}

NoCall ==
    [notification |-> [kind |-> "other", token |-> "str", progress |-> "num",
                       total |-> "num"],
     shield |-> TRUE, was_closed |-> FALSE, invoked |-> FALSE, sends |-> 0,
     transport |-> "none", cancel_during |-> FALSE, ret |-> "none"]

NotifOff ==
    /\ nm_closed = FALSE
    /\ nm_session = "ok"
    /\ nm_pc = "off"
    /\ nm_call = NoCall
    /\ nm_calls = 0
    /\ nm_cancel = FALSE

\* no progress notification is being built
NoProgressCall ==
    [fn |-> "none", progress |-> 0, total_given |-> FALSE, total |-> 0,
     done |-> FALSE, out |-> [progress |-> 0, total |-> 0]]

\* no delay is being computed
NoBackoffCall ==
    [retry |-> 0, base |-> 0, jitter |-> 0, draw |-> 0, done |-> FALSE, out |-> 0]

\* encoded bytes: the format and quality they were written with, their
\* length, and the picture they hold
NoData ==
    [format |-> "none", quality |-> 0, size |-> 0, width |-> 0, height |-> 0,
     flattened |-> FALSE, reencoded |-> FALSE]

NoSearch ==
    [called |-> FALSE, data |-> NoData, quality |-> 0, encodes |-> 0,
     fallback |-> FALSE]

NoImage ==
    [raw_len |-> 0, mode |-> "RGB", transparency |-> FALSE, width |-> 0,
     height |-> 0, flattened |-> FALSE, png_size |-> 0, png_opt_size |-> 0,
     jpeg |-> [kind |-> "mono", q |-> 0]]

NoResult == [status |-> "none", data |-> NoData, mime |-> "none", search |-> NoSearch]

\* no image is being compressed
NoCodecCall ==
    [fn |-> "none", codec |-> "none", format |-> "none", img |-> NoImage,
     done |-> FALSE, out |-> NoResult]

\* no provider response is being read
NoResponseCall == [images |-> <<>>, response |-> <<>>, done |-> FALSE, out |-> <<>>]

\* no delays are being accounted
NoRetryCall ==
    [max_retries |-> 0, current_retry |-> 0, pc |-> "off", slept |-> <<>>,
     last_error |-> "none", total_time |-> 0, reported_error |-> "none"]

\* close() calls made on the connector by tasks other than shutdown()
MaxCloses == 2
\* shutdown() calls made on the server
MaxShutdowns == 2
\* tool requests given to the server
MaxRequests == 2

DirectCalls == 1..MaxCloses
ShutdownCalls == 1..MaxShutdowns
\* the connector.close() call made by shutdown call s (openai.py:122)
Nested(s) == MaxCloses + s
CloseCalls == 1..(MaxCloses + MaxShutdowns)
Requests == 1..MaxRequests

\* LLMConnector.__init__ / OpenAIServer.__init__: open, not closing, event clear
\* (ran: the close() calls that started the client-close sequence)
NewConnector ==
    [closed |-> FALSE, closing |-> FALSE, close_event |-> FALSE, ran |-> {}]

NewServer == [closed |-> FALSE, closing |-> FALSE, close_event |-> FALSE]

NoRequest ==
    [pc |-> "off", late |-> FALSE, isError |-> FALSE, handler_called |-> FALSE,
     connector_called |-> FALSE]

\* no connector and no server exist
CloseOff ==
    /\ connector = NewConnector
    /\ server = NewServer
    /\ close_call = [c \in CloseCalls |-> [pc |-> "off", found |-> "none", attempt |-> 0]]
    /\ shutdown_call = [c \in ShutdownCalls |-> [pc |-> "off", found |-> "none"]]
    /\ tool_request = [r \in Requests |-> NoRequest]

\* ------------------------------------------------------------------- Init
Init ==
    /\ NotifOff
    /\ CloseOff
    /\ progress_call = NoProgressCall
    /\ backoff_call = NoBackoffCall
    /\ codec_call = NoCodecCall
    /\ response_call = NoResponseCall
    /\ retry_call = NoRetryCall
    /\ impl \in Impls
    /\ arguments \in [model : Models, size : Sizes, n : 1..MaxN,
                      max_retries : 0..MaxRetriesLimit]
    /\ progress_token \in Tokens
    \* handler "mgr" never reads max_retries: one value stands for all
    /\ impl = "mgr" => arguments.max_retries = DefaultMaxRetries
    /\ h_pc = "start"
    /\ h_out = "running"
    /\ h_exc = "none"
    /\ results = <<>>
    /\ events = <<>>
    /\ notification_mgr = "none"
    /\ cancel_requested = FALSE
    /\ llm_pc = "idle"
    /\ llm_exc = "none"
    /\ current_retry = 0
    /\ attempts = 0
    /\ outcomes = <<>>
    /\ sleeps = <<>>
    /\ idx = 0
    /\ failed = {}

\* The client cancels the request while the handler is running.
Cancel ==
    /\ h_out = "running"
    /\ ~cancel_requested
    /\ cancel_requested' = TRUE
    /\ UNCHANGED <<other_vars, req_vars, h_pc, h_out, h_exc, results, events, notification_mgr,
                   llm_vars, idx, failed>>

\* ------------------------------------------- LLMConnector.create_image
\* loop test off by one: "while current_retry < max_retries"
LoopGuardOffByOne(cr, m) == cr < m

\* llm.py:122  "while current_retry <= max_retries"
LoopGuard(cr, m) == cr <= m

\* a sleep after every timed-out attempt, the last one included
SleepGuardAlways(cr, m) == TRUE

\* llm.py:158  "if current_retry <= max_retries" (sleep and retry, else break)
SleepGuard(cr, m) == cr <= m

\* the exception that leaves "with fail_after(timeout):" for a failed
\* attempt: the client's APITimeoutError; at the deadline the await is
\* cancelled (not an asyncio.TimeoutError, so line 151 does not act) and
\* fail_after raises TimeoutError when the block is left; any other error
AttemptRaises(o) ==
    CASE o = "api_timeout" -> "APITimeoutError"
      [] o = "deadline"    -> "TimeoutError"
      [] OTHER             -> "ProviderError"

\* only the provider's own timeout caught
TimeoutClauseProviderOnly(exc) == exc = "APITimeoutError"

\* llm.py:154  "except (APITimeoutError, asyncio.TimeoutError)"
TimeoutClause(exc) == exc \in {"APITimeoutError", "TimeoutError"}

\* every provider failure treated as retryable ("except Exception" first)
IsTimeoutAnyError(o) == o \in {"api_timeout", "deadline", "error"}

\* the provider's own timeout and the fail_after deadline reach the clause
\* of llm.py:154; any other failure is re-raised (169-171)
IsTimeout(o) == TimeoutClause(AttemptRaises(o))

\* a cancellation surfacing as a timeout of the attempt
AwaitCancelledAsTimeout == "TimeoutError"

\* what "await self.client.images.generate(...)" (llm.py:126) and
\* "await asyncio.sleep(delay)" (165) raise in a task that has been
\* cancelled; no clause of create_image catches it
AwaitCancelled == "CancelledError"

\* the call "await connector.create_image(...)" is entered: first loop test
CallCreateImage ==
    /\ current_retry' = 0
    /\ outcomes' = <<>>
    /\ sleeps' = <<>>
    /\ IF LoopGuard(0, max_retries)
       THEN llm_pc' = "attempt" /\ attempts' = 1 /\ llm_exc' = "none"
       ELSE llm_pc' = "raised" /\ attempts' = 0 /\ llm_exc' = "TimeoutError"

\* "await self.client.images.generate(...)" inside fail_after(timeout) ends
create_image_attempt ==
    /\ llm_pc = "attempt"
    /\ IF cancel_requested
       THEN /\ llm_pc' = "raised"
            /\ llm_exc' = AwaitCancelled
            /\ UNCHANGED <<current_retry, outcomes, sleeps>>
       ELSE \E o \in AttemptOutcomes :
            /\ outcomes' = Append(outcomes, o)
            /\ IF o = "ok"
               THEN /\ llm_pc' = "returned"
                    /\ UNCHANGED <<llm_exc, current_retry, sleeps>>
               ELSE IF IsTimeout(o)
               THEN /\ current_retry' = current_retry + 1
                    /\ IF SleepGuard(current_retry + 1, max_retries)
                       THEN /\ sleeps' = Append(sleeps, current_retry + 1)
                            /\ llm_pc' = "sleep"
                            /\ UNCHANGED llm_exc
                       ELSE /\ llm_pc' = "raised"
                            /\ llm_exc' = "TimeoutError"
                            /\ UNCHANGED sleeps
               ELSE /\ llm_pc' = "raised"
                    /\ llm_exc' = "ProviderError"
                    /\ UNCHANGED <<current_retry, sleeps>>
    /\ UNCHANGED <<other_vars, req_vars, h_pc, h_out, h_exc, results, events, notification_mgr,
                   cancel_requested, attempts, idx, failed>>

\* "await asyncio.sleep(delay)" ends; "continue" re-tests the loop condition
create_image_sleep ==
    /\ llm_pc = "sleep"
    /\ IF cancel_requested
       THEN llm_pc' = "raised" /\ llm_exc' = AwaitCancelled /\ UNCHANGED attempts
       ELSE IF LoopGuard(current_retry, max_retries)
       THEN llm_pc' = "attempt" /\ attempts' = attempts + 1 /\ UNCHANGED llm_exc
       ELSE llm_pc' = "raised" /\ llm_exc' = "TimeoutError" /\ UNCHANGED attempts
    /\ UNCHANGED <<other_vars, req_vars, h_pc, h_out, h_exc, results, events, notification_mgr,
                   cancel_requested, current_retry, outcomes, sleeps, idx, failed>>

\* -------------------------------------------------- NotificationManager
\* send_notification on a manager: "if self.is_closed: return False",
\* otherwise the notification is handed to session.send_notification
MgrSend(mgr, evs, ev) ==
    IF mgr = "open" THEN Append(evs, ev) ELSE evs

\* __aexit__ -> close(): self._closed = True
MgrExit(mgr) == "closed"

\* ------------------------------------------------- handle_create_image
\* the portrait size forgotten in the incompatibility test
SizeIncompatibleLandscapeOnly(model, size) ==
    model = "dall-e-2" /\ size \in {"1792x1024"}

\* mcp_openai/.../tools.py:116
SizeIncompatible(model, size) ==
    model = "dall-e-2" /\ size \in {"1792x1024", "1024x1792"}

\* per-image progress created with is_final=True
ImageProgressMarkedFinal(im, i) ==
    IF im = "tools"
    THEN create_progress_notification(Units(50) + 50 * i, TRUE)
    ELSE create_progress_notification(Units(50) + 40 * i, TRUE)

\* progress after image i of the list: "tools" 50 + 50*(idx/len),
\* "mgr" 50.0 + (40.0/len)*idx; both without is_final
ImageProgress(im, i) ==
    IF im = "tools"
    THEN create_progress_notification(Units(50) + 50 * i, FALSE)
    ELSE create_progress_notification(Units(50) + 40 * i, FALSE)

\* the event sent when all images are processed: "tools" send_progress(100)
\* (tools.py:242-244, the completion event), "mgr" progress=100, is_final=True
CompletionProgress(im) == create_progress_notification(Units(100), TRUE)

\* "tools" without its last clause "except Exception"
CaughtAsNoCatchAll(im, exc) ==
    IF im = "tools"
    THEN CASE exc = "CancelledError" -> "cancelled"
           [] exc = "TimeoutError"   -> "timeout_error"
           [] OTHER                  -> "uncaught"
    ELSE IF exc = "CancelledError" THEN "uncaught" ELSE "error"

\* the except clause that receives an exception leaving the try body, as the
\* text it appends; "uncaught" when no clause matches.
\* "tools": except CancelledError / TimeoutError / Exception (253-283)
\* "mgr"  : except Exception only (208)
CaughtAs(im, exc) ==
    IF im = "tools"
    THEN CASE exc = "CancelledError" -> "cancelled"
           [] exc = "TimeoutError"   -> "timeout_error"
           [] OTHER                  -> "error"
    ELSE IF exc = "CancelledError" THEN "uncaught" ELSE "error"

\* an exception exc leaves the try body; evs are the events delivered so far
Raise(exc, evs) ==
    /\ h_exc' = exc
    /\ h_pc' = "done"
    /\ IF CaughtAs(impl, exc) = "uncaught"
       THEN /\ h_out' = "raised"
            /\ results' = results
            /\ events' = evs
       ELSE /\ h_out' = "returned"
            /\ results' = Append(results, CaughtAs(impl, exc))
            \* mcp_openai/.../tools.py:213 "if notification_mgr and not
            \* notification_mgr.is_closed": terminal event with progress 0
            /\ events' = IF impl = "mgr" /\ notification_mgr = "open"
                         THEN MgrSend(notification_mgr, evs,
                                      create_progress_notification(0, TRUE))
                         ELSE evs

\* entry of the handler up to its first await
handle_create_image_start ==
    /\ h_pc = "start"
    /\ UNCHANGED <<other_vars, req_vars, cancel_requested, idx, failed>>
    /\ IF impl = "mgr"
       THEN IF SizeIncompatible(arguments.model, arguments.size)
            THEN /\ notification_mgr' = IF TokenUsed THEN "open" ELSE "none"
                 /\ results' = <<"size_error">>
                 /\ h_pc' = "done"
                 /\ h_out' = "returned"
                 /\ UNCHANGED <<h_exc, events, llm_vars>>
            ELSE \* "async with notification_mgr:" send 0 (shielded), then __aexit__
                 /\ events' = IF TokenUsed
                              THEN MgrSend("open", events,
                                           create_progress_notification(0, FALSE))
                              ELSE events
                 /\ notification_mgr' = IF TokenUsed THEN MgrExit("open") ELSE "none"
                 /\ CallCreateImage
                 /\ h_pc' = "call"
                 /\ UNCHANGED <<h_out, h_exc, results>>
       ELSE /\ results' = <<"status">>
            /\ UNCHANGED <<h_out, h_exc, events, notification_mgr>>
            /\ IF TokenUsed
               THEN h_pc' = "send0" /\ UNCHANGED llm_vars
               ELSE h_pc' = "call" /\ CallCreateImage

\* "tools": "await send_progress(session, progress_token, 0)" ends
send_progress_initial ==
    /\ h_pc = "send0"
    /\ UNCHANGED <<other_vars, req_vars, notification_mgr, cancel_requested, idx, failed>>
    /\ IF cancel_requested
       THEN /\ \E delivered \in BOOLEAN :
                 Raise("CancelledError",
                       IF delivered THEN send_progress(events, 0, FALSE) ELSE events)
            /\ UNCHANGED llm_vars
       ELSE /\ events' = send_progress(events, 0, FALSE)
            /\ h_pc' = "call"
            /\ CallCreateImage
            /\ UNCHANGED <<h_out, h_exc, results>>

\* "await connector.create_image(...)" has ended
after_create_image ==
    /\ h_pc = "call"
    /\ llm_pc \in {"returned", "raised"}
    /\ UNCHANGED <<other_vars, req_vars, notification_mgr, cancel_requested, llm_vars, idx, failed>>
    /\ IF llm_pc = "raised"
       THEN Raise(llm_exc, events)
       ELSE IF impl = "tools"
       THEN IF TokenUsed
            THEN h_pc' = "send50" /\ UNCHANGED <<h_out, h_exc, results, events>>
            ELSE /\ h_pc' = "process"
                 /\ results' = Append(results, "generated")
                 /\ UNCHANGED <<h_out, h_exc, events>>
       ELSE /\ events' = IF notification_mgr = "none" THEN events
                         ELSE MgrSend(notification_mgr, events,
                                      create_progress_notification(Units(50), FALSE))
            /\ results' = Append(results, "generated")
            /\ h_pc' = "process"
            /\ UNCHANGED <<h_out, h_exc>>

\* "tools": "await send_progress(session, progress_token, 50)" ends
send_progress_generated ==
    /\ h_pc = "send50"
    /\ UNCHANGED <<other_vars, req_vars, notification_mgr, cancel_requested, llm_vars, idx, failed>>
    /\ IF cancel_requested
       THEN \E delivered \in BOOLEAN :
                 Raise("CancelledError",
                       IF delivered THEN send_progress(events, Units(50), FALSE)
                       ELSE events)
       ELSE /\ events' = send_progress(events, Units(50), FALSE)
            /\ results' = Append(results, "generated")
            /\ h_pc' = "process"
            /\ UNCHANGED <<h_out, h_exc>>

\* one iteration of the loop over the images
process_image ==
    /\ h_pc = "process"
    /\ idx < n
    /\ UNCHANGED <<other_vars, req_vars, notification_mgr, cancel_requested, llm_vars>>
    /\ IF impl = "tools"
       THEN \* inside CancelScope(shield=True); failures caught per image
            \E ok \in BOOLEAN :
            /\ idx' = idx + 1
            /\ h_pc' = "process"
            /\ UNCHANGED <<h_out, h_exc>>
            /\ IF ok
               THEN /\ results' = results \o <<"image", "shown">>
                    /\ events' = send_progress(events,
                                                ImageProgress(impl, idx + 1).progress,
                                                ImageProgress(impl, idx + 1).final)
                    /\ UNCHANGED failed
               ELSE /\ results' = Append(results, "image_error")
                    /\ failed' = failed \cup {idx + 1}
                    /\ UNCHANGED events
       ELSE \* "await download_image(url)" is not shielded; no per-image except
            IF cancel_requested
            THEN Raise("CancelledError", events) /\ UNCHANGED <<idx, failed>>
            ELSE \E ok \in BOOLEAN :
                 IF ok
                 THEN /\ idx' = idx + 1
                      /\ h_pc' = "process"
                      /\ results' = results \o <<"image", "shown">>
                      /\ events' = IF notification_mgr = "none" THEN events
                                   ELSE MgrSend(notification_mgr, events,
                                                ImageProgress(impl, idx + 1))
                      /\ UNCHANGED <<h_out, h_exc, failed>>
                 ELSE /\ failed' = failed \cup {idx + 1}
                      /\ UNCHANGED idx
                      /\ Raise("CodecError", events)

\* the loop is exhausted: completion event and "return results"
handle_create_image_complete ==
    /\ h_pc = "process"
    /\ idx = n
    /\ UNCHANGED <<other_vars, req_vars, notification_mgr, cancel_requested, llm_vars, idx, failed,
                   results, h_exc>>
    /\ events' = IF impl = "tools"
                 THEN send_progress(events, CompletionProgress(impl).progress,
                                    CompletionProgress(impl).final)
                 ELSE IF notification_mgr = "none" THEN events
                      ELSE MgrSend(notification_mgr, events, CompletionProgress(impl))
    /\ h_pc' = "done"
    /\ h_out' = "returned"

Next ==
    \/ Cancel
    \/ handle_create_image_start
    \/ send_progress_initial
    \/ create_image_attempt
    \/ create_image_sleep
    \/ after_create_image
    \/ send_progress_generated
    \/ process_image
    \/ handle_create_image_complete

Spec == Init /\ [][Next]_vars

\* ======================================================================
\* Properties
\* ======================================================================
Timeouts == {"api_timeout", "deadline"}
TerminalIndices == {i \in 1..Len(events) : events[i].final}
Count(seq, S) == Cardinality({i \in 1..Len(seq) : seq[i] \in S})
HandlerDone == h_pc = "done"

\* C1: in a call of create_image that is not cancelled and in which every
\* provider attempt times out, exactly max_retries + 1 attempts are made and
\* the call ends by raising TimeoutError; in no call is there an attempt
\* number max_retries + 2.
C1_ExhaustedAfterMaxRetriesPlusOne ==
    /\ attempts <= max_retries + 1
    /\ ( /\ llm_pc \in {"returned", "raised"}
         /\ llm_exc # "CancelledError"
         /\ Len(outcomes) = attempts
         /\ \A i \in 1..Len(outcomes) : outcomes[i] \in Timeouts )
       => ( /\ attempts = max_retries + 1
            /\ llm_pc = "raised"
            /\ llm_exc = "TimeoutError" )

C1_Witness ==
    /\ impl = "tools"
    /\ max_retries = MaxRetriesLimit
    /\ llm_pc = "raised"
    /\ llm_exc = "TimeoutError"
    /\ attempts = MaxRetriesLimit + 1
    /\ \A i \in 1..Len(outcomes) : outcomes[i] \in Timeouts

\* C2: an attempt that fails with a non-timeout error is the last attempt of
\* the call: create_image has raised that error, no attempt was issued after
\* it and no backoff sleep followed it, whatever number of retries is left.
C2_NonTimeoutErrorNotRetried ==
    \A i \in 1..Len(outcomes) :
        outcomes[i] = "error" =>
            /\ i = Len(outcomes)
            /\ llm_pc = "raised"
            /\ llm_exc = "ProviderError"
            /\ attempts = i
            /\ Len(sleeps) = i - 1

C2_Witness ==
    /\ Len(outcomes) >= 2
    /\ Last(outcomes) = "error"
    /\ current_retry < max_retries
    /\ llm_pc = "raised"

\* C3: the handler of mcp_openai/mcp_server_openai/tools.py answers a request
\* for dall-e-2 with size 1792x1024 or 1024x1792 with the incompatibility
\* text alone, and create_image is never invoked for it.
C3_IncompatibleSizeRejected ==
    ( /\ impl = "mgr"
      /\ arguments.model = "dall-e-2"
      /\ arguments.size \in {"1792x1024", "1024x1792"} )
    => /\ attempts = 0
       /\ llm_pc = "idle"
       /\ h_pc # "start" => ( /\ h_pc = "done"
                              /\ h_out = "returned"
                              /\ results = <<"size_error">> )

C3_Witness ==
    /\ impl = "mgr"
    /\ arguments.model = "dall-e-2"
    /\ arguments.size = "1024x1792"
    /\ h_pc = "done"
    /\ results = <<"size_error">>

\* C4 (as claimed): a successful single-image request with a progress token
\* has delivered non-decreasing progress values, the last of them being the
\* terminal event with progress = total.
C4_ProgressEndsAtTotal ==
    ( /\ HandlerDone
      /\ h_out = "returned"
      /\ h_exc = "none"
      /\ llm_pc = "returned"
      /\ n = 1
      /\ failed = {}
      /\ TokenUsed )
    => /\ \A i, j \in 1..Len(events) :
              i <= j => events[i].progress <= events[j].progress
       /\ events # <<>>
       /\ Last(events).final
       /\ Last(events).progress = Last(events).total

C6_CancelledReturnsSingleItem ==
    (HandlerDone /\ h_exc = "CancelledError")
    => (h_out = "returned" /\ results = <<"cancelled">>)

\* C7 (as claimed): a request with a progress token that ends by cancellation
\* has sent exactly one terminal progress event.
C7_CancelledSendsOneTerminal ==
    (HandlerDone /\ h_exc = "CancelledError" /\ TokenUsed)
    => Cardinality(TerminalIndices) = 1

\* C8 (as claimed): when create_image ended in TimeoutError or in a
\* non-timeout error and the request has a progress token, the handler has
\* sent a terminal event with progress 0 by the time it returns.
C8_FailureSendsTerminalZero ==
    (HandlerDone /\ h_exc \in {"TimeoutError", "ProviderError"} /\ TokenUsed)
    => /\ events # <<>>
       /\ Last(events).final
       /\ Last(events).progress = 0

\* C9: a handler whose provider call ended in TimeoutError or in a
\* non-timeout provider error has returned (not raised), and the last item of
\* the returned list is an error text.
C9_ProviderFailureReturnedAsText ==
    (HandlerDone /\ llm_exc \in {"TimeoutError", "ProviderError"})
    => /\ h_out = "returned"
       /\ results # <<>>
       /\ Last(results) \in {"timeout_error", "error"}

C9_Witness ==
    /\ HandlerDone
    /\ llm_exc = "ProviderError"
    /\ h_exc = "ProviderError"
    /\ h_out = "returned"

\* C10 (as claimed): when the provider returned n images of which the set
\* failed could not be processed, the finished handler has returned
\* n - |failed| image items and |failed| error texts, and with a progress
\* token the terminal 100% event has been sent.
C10_CodecFailuresIsolated ==
    (HandlerDone /\ llm_pc = "returned" /\ h_exc # "CancelledError")
    => /\ Count(results, {"image"}) = n - Cardinality(failed)
       /\ Count(results, {"image_error", "error"}) = Cardinality(failed)
       /\ TokenUsed => ( /\ events # <<>>
                         /\ Last(events).final
                         /\ Last(events).progress = Last(events).total )


\* ======================================================================
\* NotificationManager (src/mcp_server_openai/notifications.py), on its own:
\* one manager, one task that calls send_notification again and again, a
\* party that closes the manager and a party that cancels the task.
\* ======================================================================
MaxCalls == 3

\* the request pipeline is not running
PipelineOff ==
    /\ impl = "tools"
    /\ arguments = [model |-> "dall-e-3", size |-> "1024x1024", n |-> 1,
                    max_retries |-> 0]
    /\ progress_token = "none"
    /\ h_pc = "off"
    /\ h_out = "off"
    /\ h_exc = "none"
    /\ results = <<>>
    /\ events = <<>>
    /\ notification_mgr = "none"
    /\ cancel_requested = FALSE
    /\ llm_pc = "idle"
    /\ llm_exc = "none"
    /\ current_retry = 0
    /\ attempts = 0
    /\ outcomes = <<>>
    /\ sleeps = <<>>
    /\ idx = 0
    /\ failed = {}

\* NotificationManager.__init__(session): open, any kind of session
InitNotify ==
    /\ PipelineOff
    /\ CloseOff
    /\ nm_closed = FALSE
    /\ nm_session \in {"ok", "none", "no_send"}
    /\ nm_pc = "idle"
    /\ nm_call = NoCall
    /\ nm_calls = 0
    /\ nm_cancel = FALSE
    /\ progress_call = NoProgressCall
    /\ backoff_call = NoBackoffCall
    /\ codec_call = NoCodecCall
    /\ response_call = NoResponseCall
    /\ retry_call = NoRetryCall

\* the closed test skipped
ClosedCheckMissing(closed) == FALSE

\* notifications.py:83  "if self.is_closed: return False"
ClosedCheck(closed) == closed

\* notifications.py:87  "if not self.session or not hasattr(self.session,
\* 'send_notification'): return False"
SessionUsable(session) == session = "ok"

\* the test of params.total forgotten
WellFormedNoTotalTest(nt) ==
    nt.kind = "progress" =>
        /\ nt.token \in {"str", "int"}
        /\ nt.progress = "num"

\* notifications.py:94-105: a progress notification needs a str/int token, a
\* numeric progress and a total that is None or numeric; other kinds of
\* notification are not looked at
WellFormed(nt) ==
    nt.kind = "progress" =>
        /\ nt.token \in {"str", "int"}
        /\ nt.progress = "num"
        /\ nt.total \in {"num", "none"}

\* _send without its last clause "except Exception"
SendCatchesNoCatchAll(exc) ==
    exc \in {"ValidationError", "BrokenResourceError", "ClosedResourceError"}

\* notifications.py:114-122: the except clauses of _send
SendCatches(exc) ==
    exc \in {"ValidationError", "BrokenResourceError", "ClosedResourceError",
             "Exception"}

\* notifications.py:124-130: with shield the call of _send stands in
\* "try ... except Exception: return False"
ShieldCatches(shield, exc) == shield

\* the shield flag ignored: _send always awaited unshielded
ShieldIgnored(shield) == FALSE

\* notifications.py:124-127: "async with anyio.CancelScope(shield=True)"
Shielded(shield) == shield

\* no send reported as delivered
SendResultNeverTrue(shield, t) == "false"

\* what the call returns once the transport ended in t
SendResult(shield, t) ==
    IF t = "ok" THEN "true"
    ELSE IF SendCatches(t) \/ ShieldCatches(shield, t) THEN "false"
    ELSE "raised"

\* NotificationManager.close(), also run by __aexit__
close ==
    /\ nm_pc \in {"idle", "sending"}
    /\ ~nm_closed
    /\ nm_closed' = TRUE
    /\ UNCHANGED <<pipeline_vars, calc_vars, close_vars, nm_session, nm_pc, nm_call, nm_calls,
                   nm_cancel>>

\* the task that uses the manager is cancelled
cancel_task ==
    /\ nm_pc \in {"idle", "sending"}
    /\ ~nm_cancel
    /\ nm_cancel' = TRUE
    /\ nm_call' = IF nm_pc = "sending"
                  THEN [nm_call EXCEPT !.cancel_during = TRUE]
                  ELSE nm_call
    /\ UNCHANGED <<pipeline_vars, calc_vars, close_vars, nm_closed, nm_session, nm_pc, nm_calls>>

\* send_notification(notification, shield=...) up to its await, or to the
\* "return False" that comes before
send_notification ==
    /\ nm_pc = "idle"
    /\ nm_calls < MaxCalls
    /\ \E nt \in Notifications, sh \in BOOLEAN :
        LET c == [notification |-> nt, shield |-> sh, was_closed |-> nm_closed,
                  invoked |-> FALSE, sends |-> 0, transport |-> "none",
                  cancel_during |-> FALSE, ret |-> "none"]
        IN  IF ClosedCheck(nm_closed) \/ ~SessionUsable(nm_session)
               \/ ~WellFormed(nt)
            THEN /\ nm_call' = [c EXCEPT !.ret = "false"]
                 /\ nm_pc' = "idle"
            ELSE /\ nm_call' = [c EXCEPT !.invoked = TRUE, !.sends = @ + 1]
                 /\ nm_pc' = "sending"
    /\ nm_calls' = nm_calls + 1
    /\ UNCHANGED <<pipeline_vars, calc_vars, close_vars, nm_closed, nm_session, nm_cancel>>

\* "await self.session.send_notification(notification)" ends
send_notification_done ==
    /\ nm_pc = "sending"
    /\ IF nm_cancel /\ ~Shielded(nm_call.shield)
       THEN /\ nm_call' = [nm_call EXCEPT !.transport = "aborted",
                                          !.ret = "CancelledError"]
            /\ nm_pc' = "cancelled"
       ELSE \E t \in TransportOutcomes :
            /\ nm_call' = [nm_call EXCEPT !.transport = t,
                                          !.ret = SendResult(nm_call.shield, t)]
            /\ nm_pc' = "idle"
    /\ UNCHANGED <<pipeline_vars, calc_vars, close_vars, nm_closed, nm_session, nm_calls,
                   nm_cancel>>

NextNotify ==
    \/ close
    \/ cancel_task
    \/ send_notification
    \/ send_notification_done

SpecNotify == InitNotify /\ [][NextNotify]_vars

TransportFailures ==
    {"BrokenResourceError", "ClosedResourceError", "ValidationError", "Exception"}

\* C11: no call of send_notification ends by raising an error, and a call
\* whose transport send failed (broken or closed transport, validation
\* error, any other exception) has returned false.
C11_SendNeverRaises ==
    /\ nm_call.ret # "raised"
    /\ nm_call.transport \in TransportFailures => nm_call.ret = "false"

C11_Witness ==
    /\ nm_call.invoked
    /\ ~nm_call.shield
    /\ nm_call.transport = "Exception"
    /\ nm_call.ret = "false"

\* C12: once the manager is closed it stays closed, and every call of
\* send_notification started from then on returns false at once without
\* invoking the session's send.
C12_ClosedIsFinal ==
    [][ nm_closed =>
          /\ nm_closed'
          /\ nm_calls' # nm_calls =>
                ( /\ nm_call'.ret = "false"
                  /\ ~nm_call'.invoked
                  /\ nm_pc' = "idle" ) ]_vars

C12_Witness ==
    /\ nm_closed
    /\ nm_session = "ok"
    /\ nm_call.was_closed
    /\ WellFormed(nm_call.notification)
    /\ nm_call.ret = "false"
    /\ ~nm_call.invoked

\* C13: a call made with shield=True whose task was cancelled while the
\* transport send was in progress is not aborted: the transport send ended
\* by itself and the call returned its result.
C13_ShieldedSendCompletes ==
    (nm_call.shield /\ nm_call.cancel_during /\ nm_pc # "sending")
    => /\ nm_call.transport \in TransportOutcomes
       /\ nm_call.ret \in {"true", "false"}
       /\ nm_call.ret = "true" <=> nm_call.transport = "ok"

C13_Witness ==
    /\ nm_call.shield
    /\ nm_call.cancel_during
    /\ nm_call.transport = "ok"
    /\ nm_call.ret = "true"

\* C14: a progress notification whose token is neither str nor int, or whose
\* progress or total is of a non-numeric type, is never handed to the
\* session: the call returns false (and does not raise).
C14_MalformedRejected ==
    ( /\ nm_call.notification.kind = "progress"
      /\ \/ nm_call.notification.token = "other"
         \/ nm_call.notification.progress = "other"
         \/ nm_call.notification.total = "other" )
    => /\ ~nm_call.invoked
       /\ nm_call.ret = "false"
       /\ nm_call.transport = "none"

C14_Witness ==
    /\ ~nm_call.was_closed
    /\ nm_session = "ok"
    /\ nm_call.notification.kind = "progress"
    /\ nm_call.notification.token = "str"
    /\ nm_call.notification.progress = "num"
    /\ nm_call.notification.total = "other"
    /\ nm_call.ret = "false"
    /\ ~nm_call.invoked

\* ======================================================================
\* The progress value of a notification: create_progress_notification
\* (notifications.py) and send_progress (tools.py) as functions of the
\* progress and total they are given.  Totals are taken non-negative.
\* ======================================================================
MaxProgressIn == 6
MaxTotalIn == 3
SendProgressTotal == 100

ProgressInputs ==
    (-MaxProgressIn..MaxProgressIn)
    \cup {DefaultTotal - 1, DefaultTotal, DefaultTotal + 1}

\* notifications.py:39-44: total defaults to 100 when it is None; the
\* progress put into the params is max(0.0, min(progress, total))
ProgressParams(progress, total_given, total) ==
    LET t == IF total_given THEN total ELSE DefaultTotal
    IN  [progress |-> Clamp(progress, t), total |-> t]

\* tools.py:121-128: send_progress clamps with its own total (default 100)
\* and passes progress and total on to create_progress_notification
SendProgressParams(progress, total_given, total) ==
    LET t == IF total_given THEN total ELSE SendProgressTotal
    IN  ProgressParams(Clamp(progress, t), TRUE, t)

InitProgress ==
    /\ PipelineOff
    /\ CloseOff
    /\ NotifOff
    /\ backoff_call = NoBackoffCall
    /\ codec_call = NoCodecCall
    /\ response_call = NoResponseCall
    /\ retry_call = NoRetryCall
    /\ \E f \in {"create_progress_notification", "send_progress"},
          pr \in ProgressInputs, g \in BOOLEAN, t \in 0..MaxTotalIn :
          progress_call = [fn |-> f, progress |-> pr, total_given |-> g,
                           total |-> IF g THEN t ELSE 0, done |-> FALSE,
                           out |-> [progress |-> 0, total |-> 0]]

call_create_progress_notification ==
    /\ progress_call.fn = "create_progress_notification"
    /\ ~progress_call.done
    /\ progress_call' =
         [progress_call EXCEPT
            !.done = TRUE,
            !.out = ProgressParams(progress_call.progress,
                                   progress_call.total_given, progress_call.total)]
    /\ UNCHANGED <<pipeline_vars, notif_vars, close_vars, backoff_call, codec_call, response_call,
                   retry_call>>

call_send_progress ==
    /\ progress_call.fn = "send_progress"
    /\ ~progress_call.done
    /\ progress_call' =
         [progress_call EXCEPT
            !.done = TRUE,
            !.out = SendProgressParams(progress_call.progress,
                                       progress_call.total_given,
                                       progress_call.total)]
    /\ UNCHANGED <<pipeline_vars, notif_vars, close_vars, backoff_call, codec_call, response_call,
                   retry_call>>

NextProgress ==
    \/ call_create_progress_notification
    \/ call_send_progress

SpecProgress == InitProgress /\ [][NextProgress]_vars

\* C15: the params built by create_progress_notification and by
\* send_progress carry the total given (100 when none is given) and a
\* progress within [0, total]: an input below 0 becomes 0, an input above
\* total becomes total, an input within the range is kept.
C15_ProgressClamped ==
    progress_call.done =>
        LET t  == IF progress_call.total_given THEN progress_call.total ELSE 100
            pr == progress_call.progress
            o  == progress_call.out
        IN  /\ o.total = t
            /\ 0 <= o.progress
            /\ o.progress <= o.total
            /\ pr < 0 => o.progress = 0
            /\ pr > t => o.progress = t
            /\ (0 <= pr /\ pr <= t) => o.progress = pr

C15_Witness ==
    /\ progress_call.done
    /\ progress_call.fn = "send_progress"
    /\ ~progress_call.total_given
    /\ progress_call.progress = 101
    /\ progress_call.out.progress = 100

\* ======================================================================
\* calculate_backoff_delay (llm.py) as a function of its arguments and of
\* the number random.uniform draws.  jitter is j tenths (j / JitterDen), the draw of
\* random.uniform(a, b) is a + (b - a) * k / DrawDen with k in 0..DrawDen,
\* base_delay is a whole number of seconds, and every delay is kept in
\* units of 1 / (JitterDen * DrawDen) second, so the arithmetic is exact.
\* ======================================================================
MaxAttempt == 5
MaxBase == 3
JitterDen == 10
DrawDen == 4

DelayUnit == JitterDen * DrawDen

\* llm.py:30: base_delay * (2 ** retry)
ExpDelay(base, retry) == base * (2 ^ retry) * DelayUnit

\* llm.py:32: delay * jitter
JitterAmount(base, retry, j) == base * (2 ^ retry) * j * DrawDen

\* llm.py:33: delay + random.uniform(-jitter_amount, jitter_amount)
ActualDelay(base, retry, j, k) ==
    LET jitter_amount == JitterAmount(base, retry, j)
    IN  ExpDelay(base, retry)
          + (-jitter_amount + (2 * jitter_amount * k) \div DrawDen)

\* the floor forgotten: actual_delay returned as it is
BackoffDelayNoFloor(base, retry, j, k) == ActualDelay(base, retry, j, k)

\* llm.py:35: max(base_delay, actual_delay)
BackoffDelay(base, retry, j, k) ==
    PyMax(base * DelayUnit, ActualDelay(base, retry, j, k))

InitBackoff ==
    /\ PipelineOff
    /\ CloseOff
    /\ NotifOff
    /\ progress_call = NoProgressCall
    /\ codec_call = NoCodecCall
    /\ response_call = NoResponseCall
    /\ retry_call = NoRetryCall
    /\ \E r \in 0..MaxAttempt, b \in 1..MaxBase, j \in 0..JitterDen, k \in 0..DrawDen :
          backoff_call = [retry |-> r, base |-> b, jitter |-> j, draw |-> k,
                          done |-> FALSE, out |-> 0]

call_calculate_backoff_delay ==
    /\ backoff_call.base > 0
    /\ ~backoff_call.done
    /\ backoff_call' =
         [backoff_call EXCEPT
            !.done = TRUE,
            !.out = BackoffDelay(backoff_call.base, backoff_call.retry,
                                 backoff_call.jitter, backoff_call.draw)]
    /\ UNCHANGED <<pipeline_vars, notif_vars, close_vars, progress_call, codec_call, response_call,
                   retry_call>>

NextBackoff == call_calculate_backoff_delay

SpecBackoff == InitBackoff /\ [][NextBackoff]_vars

\* C16: for every attempt number >= 0, every base delay > 0, every jitter
\* in [0, 1] and every random draw, the delay calculate_backoff_delay
\* returns is positive and at least the base delay.
C16_BackoffAtLeastBase ==
    backoff_call.done =>
        /\ backoff_call.out >= backoff_call.base * DelayUnit
        /\ backoff_call.out > 0

\* retry 0, full jitter, lowest draw: the jittered delay is 0 and the floor acts
C16_Witness ==
    /\ backoff_call.done
    /\ backoff_call.retry = 0
    /\ backoff_call.jitter = JitterDen
    /\ backoff_call.draw = 0
    /\ ActualDelay(backoff_call.base, 0, JitterDen, 0) = 0
    /\ backoff_call.out = backoff_call.base * DelayUnit

\* ======================================================================
\* The image codec.  Two revisions of compress_image_data are in the
\* tree: "bsearch" is mcp_openai/image_utils.py (binary_search_quality),
\* "linear" is mcp_server_openai/image_utils.py (quality 95 down in steps
\* of 10).  An image is what the codec can observe of it: the length of
\* its bytes, its mode and dimensions, and the length each encoding of it
\* comes out at.  Pillow writes JPEG from modes L, RGB, CMYK only, so
\* saving a P image as JPEG raises OSError.
\* ======================================================================
MinQuality == 30
MaxQuality == 95
QualityStep == 10
MaxDimension == 1024

\* the default of max_size
max_size == 512 * 1024

Codecs == {"bsearch", "linear"}
Dims == {512, 1024, 1792}
RawLens == {max_size - 1, max_size, max_size + 1}
Modes == {[mode |-> "RGB", transparency |-> FALSE],
          [mode |-> "RGBA", transparency |-> FALSE],
          [mode |-> "LA", transparency |-> FALSE],
          [mode |-> "P", transparency |-> FALSE],
          [mode |-> "P", transparency |-> TRUE]}

\* how the JPEG length of the image to encode depends on quality:
\*   "mono": the length grows by one byte per quality step and equals
\*           max_size at quality q (q = MinQuality - 1: no quality fits);
\*   "dip":  only quality q comes out within max_size
JpegProfiles ==
    [kind : {"mono"}, q : (MinQuality - 1)..MaxQuality]
    \cup [kind : {"dip"}, q : MinQuality..MaxQuality]

JpegSize(profile, quality) ==
    IF profile.kind = "mono" THEN max_size + (quality - profile.q)
    ELSE IF quality = profile.q THEN max_size - 1 ELSE max_size + 1

\* img.mode in ('RGBA', 'LA') or (img.mode == 'P' and 'transparency' in img.info)
Transparent(img) ==
    \/ img.mode \in {"RGBA", "LA"}
    \/ img.mode = "P" /\ img.transparency

\* whether Pillow can write the image in the format
CanWrite(img, format) == format = "PNG" \/ img.mode = "RGB"

\* img.save(bio, format=..., quality=..., optimize=...); PNG has no quality
Save(img, format, quality, optimize) ==
    [format |-> format,
     quality |-> IF format = "PNG" THEN 0 ELSE quality,
     size |-> IF format = "PNG"
              THEN (IF optimize THEN img.png_opt_size ELSE img.png_size)
              ELSE JpegSize(img.jpeg, quality),
     width |-> img.width, height |-> img.height,
     flattened |-> img.flattened, reencoded |-> TRUE]

\* the bytes handed in, returned as they are
RawData(img) ==
    [format |-> "raw", quality |-> 0, size |-> img.raw_len,
     width |-> img.width, height |-> img.height,
     flattened |-> FALSE, reencoded |-> FALSE]

\* the budget test taken strictly
FitsStrictly(size, target_size) == size < target_size

\* size <= target_size / len(final_data) <= max_size
Fits(size, target_size) == size <= target_size

\* the search walking up from low one quality at a time
MidpointLowest(low, high) == low

\* image_utils.py:58: current_quality = (low + high) // 2
Midpoint(low, high) == (low + high) \div 2

\* image_utils.py:57-74, the while loop of binary_search_quality
RECURSIVE SearchLoop(_, _, _, _, _, _, _, _)
SearchLoop(img, format, target_size, low, high, best_data, best_quality, encodes) ==
    IF low > high
    THEN [data |-> best_data, quality |-> best_quality, encodes |-> encodes]
    ELSE LET current_quality == Midpoint(low, high)
             data == Save(img, format, current_quality, TRUE)
         IN  IF Fits(data.size, target_size)
             THEN SearchLoop(img, format, target_size, current_quality + 1, high,
                             data, current_quality, encodes + 1)
             ELSE SearchLoop(img, format, target_size, low, current_quality - 1,
                             best_data, best_quality, encodes + 1)

\* image_utils.py:39-84
binary_search_quality(img, format, target_size, min_quality) ==
    LET r == SearchLoop(img, format, target_size, min_quality, MaxQuality,
                        NoData, MaxQuality, 0)
    IN  IF r.data = NoData
        THEN [called |-> TRUE, data |-> Save(img, format, min_quality, TRUE),
              quality |-> r.quality, encodes |-> r.encodes + 1, fallback |-> TRUE]
        ELSE [called |-> TRUE, data |-> r.data, quality |-> r.quality,
              encodes |-> r.encodes, fallback |-> FALSE]

\* image_utils.py:86-102: only the width is capped
get_optimal_dimensions(width, height, target_width) ==
    IF width <= target_width THEN <<width, height>>
    ELSE <<target_width, (height * target_width) \div width>>

\* mcp_openai/image_utils.py:124-126
ResizeBsearch(img) ==
    IF img.width > MaxDimension \/ img.height > MaxDimension
    THEN LET d == get_optimal_dimensions(img.width, img.height, MaxDimension)
         IN  [img EXCEPT !.width = d[1], !.height = d[2]]
    ELSE img

\* mcp_server_openai/image_utils.py:37-42: ratio = min(1024/w, 1024/h)
ResizeLinear(img) ==
    LET longest == IF img.width > img.height THEN img.width ELSE img.height
    IN  IF longest > MaxDimension
        THEN [img EXCEPT !.width = (img.width * MaxDimension) \div longest,
                         !.height = (img.height * MaxDimension) \div longest]
        ELSE img

\* a new RGB image, white, with the image pasted on it
Flatten(img) ==
    [img EXCEPT !.mode = "RGB", !.transparency = FALSE, !.flattened = TRUE]

Returned(data, mime, search) ==
    [status |-> "returned", data |-> data, mime |-> mime, search |-> search]

Raised == [status |-> "raised", data |-> NoData, mime |-> "none", search |-> NoSearch]

JpegBySearch(img) ==
    IF CanWrite(img, "JPEG")
    THEN LET r == binary_search_quality(img, "JPEG", max_size, MinQuality)
         IN  Returned(r.data, "image/jpeg", r)
    ELSE Raised

\* mcp_openai/image_utils.py:104-162
compress_image_data_bsearch(image) ==
    IF image.raw_len <= max_size
    THEN Returned(RawData(image), "image/png", NoSearch)
    ELSE LET img == ResizeBsearch(image)
         IN  IF Transparent(img)
             THEN LET final_data == Save(img, "PNG", 0, TRUE)
                  IN  IF final_data.size > max_size
                      THEN JpegBySearch(Flatten(img))
                      ELSE Returned(final_data, "image/png", NoSearch)
             ELSE JpegBySearch(img)

\* mcp_server_openai/image_utils.py:44-62, the while loop
RECURSIVE QualityLoop(_, _)
QualityLoop(img, quality) ==
    LET transparent == Transparent(img)
        format == IF transparent THEN "PNG" ELSE "JPEG"
    IN  IF ~CanWrite(img, format) THEN Raised
        ELSE LET final_data == Save(img, format, quality, TRUE)
                 mime_type == IF transparent THEN "image/png" ELSE "image/jpeg"
             IN  IF Fits(final_data.size, max_size)
                 THEN Returned(final_data, mime_type, NoSearch)
                 ELSE IF quality - QualityStep > MinQuality
                      THEN QualityLoop(img, quality - QualityStep)
                      ELSE Returned(final_data, mime_type, NoSearch)

\* mcp_server_openai/image_utils.py:12-66
compress_image_data_linear(image) ==
    IF image.raw_len <= max_size
    THEN Returned(Save(image, "PNG", 0, FALSE), "image/png", NoSearch)
    ELSE QualityLoop(ResizeLinear(image), MaxQuality)

Images ==
    {[raw_len |-> l, mode |-> m.mode, transparency |-> m.transparency,
      width |-> w, height |-> h, flattened |-> FALSE,
      png_size |-> l + d, png_opt_size |-> po, jpeg |-> j] :
        l \in RawLens, m \in Modes, w \in Dims, h \in Dims,
        d \in {-1, 0, 1}, po \in {max_size, max_size + 1}, j \in JpegProfiles}

\* the images binary_search_quality is called on directly
SearchImages ==
    {i \in Images : /\ i.raw_len = max_size + 1 /\ i.png_size = i.raw_len
                    /\ i.width = MaxDimension /\ i.height = MaxDimension
                    /\ i.mode = "RGB"}

InitCodec ==
    /\ PipelineOff
    /\ CloseOff
    /\ NotifOff
    /\ progress_call = NoProgressCall
    /\ backoff_call = NoBackoffCall
    /\ response_call = NoResponseCall
    /\ retry_call = NoRetryCall
    /\ \/ \E c \in Codecs, i \in Images :
             codec_call = [fn |-> "compress_image_data", codec |-> c,
                           format |-> "none", img |-> i, done |-> FALSE,
                           out |-> NoResult]
       \/ \E f \in {"JPEG", "PNG"}, i \in SearchImages :
             codec_call = [fn |-> "binary_search_quality", codec |-> "bsearch",
                           format |-> f, img |-> i, done |-> FALSE,
                           out |-> NoResult]

call_compress_image_data_bsearch ==
    /\ codec_call.fn = "compress_image_data"
    /\ codec_call.codec = "bsearch"
    /\ ~codec_call.done
    /\ codec_call' = [codec_call EXCEPT
                        !.done = TRUE,
                        !.out = compress_image_data_bsearch(codec_call.img)]
    /\ UNCHANGED <<pipeline_vars, notif_vars, close_vars, progress_call, backoff_call, response_call,
                   retry_call>>

call_compress_image_data_linear ==
    /\ codec_call.fn = "compress_image_data"
    /\ codec_call.codec = "linear"
    /\ ~codec_call.done
    /\ codec_call' = [codec_call EXCEPT
                        !.done = TRUE,
                        !.out = compress_image_data_linear(codec_call.img)]
    /\ UNCHANGED <<pipeline_vars, notif_vars, close_vars, progress_call, backoff_call, response_call,
                   retry_call>>

call_binary_search_quality ==
    /\ codec_call.fn = "binary_search_quality"
    /\ ~codec_call.done
    /\ LET r == binary_search_quality(codec_call.img, codec_call.format,
                                      max_size, MinQuality)
       IN  codec_call' = [codec_call EXCEPT
                            !.done = TRUE,
                            !.out = Returned(r.data, "none", r)]
    /\ UNCHANGED <<pipeline_vars, notif_vars, close_vars, progress_call, backoff_call, response_call,
                   retry_call>>

NextCodec ==
    \/ call_compress_image_data_bsearch
    \/ call_compress_image_data_linear
    \/ call_binary_search_quality

SpecCodec == InitCodec /\ [][NextCodec]_vars

\* ---------------------------------------------------------------------
\* properties of the codec
\* ---------------------------------------------------------------------
Qualities == MinQuality..MaxQuality

\* the image binary_search_quality is given, and the format it is asked for
SearchedImage ==
    IF codec_call.fn = "binary_search_quality" THEN codec_call.img
    ELSE LET r == ResizeBsearch(codec_call.img)
         IN  IF Transparent(r) THEN Flatten(r) ELSE r

SearchedFormat ==
    IF codec_call.fn = "binary_search_quality" THEN codec_call.format ELSE "JPEG"

SizeAt(quality) == Save(SearchedImage, SearchedFormat, quality, TRUE).size

FittingQualities == {q \in Qualities : SizeAt(q) <= max_size}

SizeMonotone == \A q \in MinQuality..(MaxQuality - 1) : SizeAt(q) <= SizeAt(q + 1)

HighestFitting == CHOOSE q \in FittingQualities : \A r \in FittingQualities : r <= q

\* an opaque image over the budget has been handed to compress_image_data
OpaqueOverBudget ==
    /\ codec_call.fn = "compress_image_data"
    /\ codec_call.done
    /\ codec_call.img.raw_len > max_size
    /\ ~Transparent(codec_call.img)

JpegFits == {q \in Qualities : JpegSize(codec_call.img.jpeg, q) <= max_size}

\* C17 (as claimed): for an opaque image larger than the budget of which
\* at least one JPEG quality in 30..95 comes out within the budget,
\* compress_image_data returns bytes no longer than the budget.
C17_OpaqueWithinBudget ==
    (OpaqueOverBudget /\ JpegFits # {}) =>
        /\ codec_call.out.status = "returned"
        /\ codec_call.out.data.size <= max_size

\* C18: when the encoded size does not decrease as quality rises and some
\* quality in 30..95 fits the budget, binary_search_quality returns the
\* encoding made at the highest quality in 30..95 that fits, and that
\* quality.
C18_HighestFittingQuality ==
    (/\ codec_call.done
     /\ codec_call.out.search.called
     /\ SizeMonotone
     /\ FittingQualities # {}) =>
        /\ codec_call.out.search.quality = HighestFitting
        /\ codec_call.out.search.data =
              Save(SearchedImage, SearchedFormat, HighestFitting, TRUE)
        /\ codec_call.out.search.data.size <= max_size
        /\ ~codec_call.out.search.fallback

\* a transparent image whose PNG is over the budget, flattened and searched:
\* the budget is met exactly at quality 47, below the first midpoint 62
C18_Witness ==
    /\ codec_call.done
    /\ codec_call.fn = "compress_image_data"
    /\ codec_call.img.mode = "RGBA"
    /\ codec_call.out.search.called
    /\ codec_call.img.jpeg = [kind |-> "mono", q |-> 47]
    /\ codec_call.out.data.format = "JPEG"
    /\ codec_call.out.data.quality = 47
    /\ codec_call.out.data.size = max_size

\* C19 (as claimed): for an opaque image larger than the budget of which
\* no JPEG quality in 30..95 comes out within the budget,
\* compress_image_data does not raise and returns the JPEG made at
\* quality 30, which is larger than the budget.
C19_FallbackAtMinQuality ==
    (OpaqueOverBudget /\ JpegFits = {}) =>
        /\ codec_call.out.status = "returned"
        /\ codec_call.out.data.format = "JPEG"
        /\ codec_call.out.data.quality = MinQuality
        /\ codec_call.out.data.size > max_size

\* C20 (as claimed): for an input no longer than the budget,
\* compress_image_data returns the image encoded anew as PNG, with MIME
\* type image/png, in no more bytes than the input.
C20_SmallInputReencodedAsPng ==
    (/\ codec_call.fn = "compress_image_data"
     /\ codec_call.done
     /\ codec_call.img.raw_len <= max_size) =>
        /\ codec_call.out.status = "returned"
        /\ codec_call.out.mime = "image/png"
        /\ codec_call.out.data.format = "PNG"
        /\ codec_call.out.data.reencoded
        /\ codec_call.out.data.size <= codec_call.img.raw_len

\* C21 (as claimed): for an image with transparency larger than the budget
\* whose PNG is larger than the budget too, compress_image_data returns
\* MIME type image/jpeg and a JPEG of the image flattened onto white,
\* never the PNG that is over the budget.
C21_TransparentOverBudgetFlattened ==
    (/\ codec_call.fn = "compress_image_data"
     /\ codec_call.done
     /\ codec_call.img.raw_len > max_size
     /\ Transparent(codec_call.img)
     /\ codec_call.img.png_opt_size > max_size) =>
        /\ codec_call.out.status = "returned"
        /\ codec_call.out.mime = "image/jpeg"
        /\ codec_call.out.data.format = "JPEG"
        /\ codec_call.out.data.flattened

\* C22 (as claimed): for an image larger than the budget with width or
\* height above 1024, the image compress_image_data encodes has width and
\* height of at most 1024, both scaled by 1024 / (the longer side) and
\* rounded down.
C22_DimensionsCapped ==
    (/\ codec_call.fn = "compress_image_data"
     /\ codec_call.done
     /\ codec_call.out.status = "returned"
     /\ codec_call.img.raw_len > max_size
     /\ (codec_call.img.width > 1024 \/ codec_call.img.height > 1024)) =>
        LET w == codec_call.img.width
            h == codec_call.img.height
            longest == IF w > h THEN w ELSE h
        IN  /\ codec_call.out.data.width <= 1024
            /\ codec_call.out.data.height <= 1024
            /\ codec_call.out.data.width = (w * 1024) \div longest
            /\ codec_call.out.data.height = (h * 1024) \div longest

\* ======================================================================
\* Further properties of the request pipeline (specification Spec)
\* ======================================================================

\* C23: an attempt cut off by the deadline of fail_after(timeout) is
\* handled as an attempt the provider reports as timed out: either of them
\* counts one retry, is followed by a backoff sleep while
\* current_retry <= max_retries, and otherwise ends the call in the final
\* TimeoutError.
C23_DeadlineHandledAsTimeout ==
    [][ (/\ llm_pc = "attempt"
         /\ outcomes' # outcomes
         /\ Last(outcomes') \in {"deadline", "api_timeout"}) =>
            /\ current_retry' = current_retry + 1
            /\ IF current_retry + 1 <= max_retries
               THEN /\ llm_pc' = "sleep"
                    /\ Len(sleeps') = Len(sleeps) + 1
                    /\ llm_exc' = llm_exc
               ELSE /\ llm_pc' = "raised"
                    /\ llm_exc' = "TimeoutError"
                    /\ sleeps' = sleeps ]_vars

\* deadline, backoff, deadline again with max_retries = 1: final TimeoutError
C23_Witness ==
    /\ max_retries = 1
    /\ outcomes = <<"deadline", "deadline">>
    /\ Len(sleeps) = 1
    /\ llm_pc = "raised"
    /\ llm_exc = "TimeoutError"

\* C24: cancellation and timeout are kept apart.  A cancellation that
\* interrupts an attempt or a backoff sleep ends create_image in
\* CancelledError at once, without counting a retry, sleeping or starting
\* another attempt; a handler ended by a cancellation has not answered with
\* the timeout text; and a handler whose create_image call ended in the
\* final TimeoutError has not answered with the cancelled text.
C24_CancelAndTimeoutApart ==
    /\ [](HandlerDone =>
            /\ h_exc = "CancelledError" => \A i \in 1..Len(results) :
                                               results[i] # "timeout_error"
            /\ llm_exc = "CancelledError" => h_exc = "CancelledError"
            /\ llm_exc = "TimeoutError" => \A i \in 1..Len(results) :
                                               results[i] # "cancelled")
    /\ [][ (/\ llm_pc \in {"attempt", "sleep"}
            /\ cancel_requested
            /\ llm_pc' # llm_pc) =>
               /\ llm_pc' = "raised"
               /\ llm_exc' = "CancelledError"
               /\ current_retry' = current_retry
               /\ attempts' = attempts
               /\ sleeps' = sleeps
               /\ outcomes' = outcomes ]_vars

\* cancelled after one timed-out attempt, answered with the cancelled text
C24_Witness ==
    /\ HandlerDone
    /\ impl = "tools"
    /\ outcomes = <<"deadline">>
    /\ llm_exc = "CancelledError"
    /\ h_exc = "CancelledError"
    /\ Last(results) = "cancelled"

\* ======================================================================
\* The provider response read by create_image (llm.py:135-149).  Each
\* image of the response carries its bytes as base64 text in b64_json;
\* create_image decodes the text and labels the bytes image/png.  A base64
\* character is kept as its index 0..63 in the alphabet, Pad is "=".
\* ======================================================================
MaxImages == 2
MaxBytes == 3

Pad == 64

\* byte values: zero, the first byte of a PNG file, the largest
Bytes == {0, 137, 255}

\* the sequences over S of length 1..k
RECURSIVE SeqsUpTo(_, _)
SeqsUpTo(S, k) ==
    IF k = 0 THEN {}
    ELSE LET shorter == SeqsUpTo(S, k - 1)
         IN  {<<x>> : x \in S} \cup shorter
                \cup {Append(t, x) : t \in shorter, x \in S}

\* what the provider does to the bytes of an image (RFC 4648)
RECURSIVE B64Encode(_)
B64Encode(b) ==
    IF Len(b) = 0 THEN <<>>
    ELSE IF Len(b) = 1
    THEN <<b[1] \div 4, (b[1] % 4) * 16, Pad, Pad>>
    ELSE IF Len(b) = 2
    THEN <<b[1] \div 4, (b[1] % 4) * 16 + b[2] \div 16, (b[2] % 16) * 4, Pad>>
    ELSE <<b[1] \div 4, (b[1] % 4) * 16 + b[2] \div 16,
           (b[2] % 16) * 4 + b[3] \div 64, b[3] % 64>>
         \o B64Encode(SubSeq(b, 4, Len(b)))

\* a group of four characters read as always holding three bytes
DecodeQuadUnpadded(q) ==
    <<q[1] * 4 + q[2] \div 16, (q[2] % 16) * 16 + q[3] \div 4,
      (q[3] % 4) * 64 + q[4]>>

\* the bytes of one group of four characters
DecodeQuad(q) ==
    IF q[3] = Pad THEN <<q[1] * 4 + q[2] \div 16>>
    ELSE IF q[4] = Pad
    THEN <<q[1] * 4 + q[2] \div 16, (q[2] % 16) * 16 + q[3] \div 4>>
    ELSE <<q[1] * 4 + q[2] \div 16, (q[2] % 16) * 16 + q[3] \div 4,
           (q[3] % 4) * 64 + q[4]>>

\* base64.b64decode(image.b64_json) on well-padded text
RECURSIVE b64decode(_)
b64decode(t) ==
    IF Len(t) < 4 THEN <<>>
    ELSE DecodeQuad(SubSeq(t, 1, 4)) \o b64decode(SubSeq(t, 5, Len(t)))

\* llm.py:135-141: one entry per image of response.data, appended in order
RECURSIVE image_data_list(_)
image_data_list(data) ==
    IF data = <<>> THEN <<>>
    ELSE <<[data |-> b64decode(data[1].b64_json), media_type |-> "image/png"]>>
         \o image_data_list(Tail(data))

ProviderImages == SeqsUpTo(Bytes, MaxBytes)

InitResponse ==
    /\ PipelineOff
    /\ CloseOff
    /\ NotifOff
    /\ progress_call = NoProgressCall
    /\ backoff_call = NoBackoffCall
    /\ codec_call = NoCodecCall
    /\ retry_call = NoRetryCall
    /\ \E imgs \in SeqsUpTo(ProviderImages, MaxImages) :
          response_call =
             [images |-> imgs,
              response |-> [i \in 1..Len(imgs) |-> [b64_json |-> B64Encode(imgs[i])]],
              done |-> FALSE, out |-> <<>>]

create_image_read_response ==
    /\ response_call.response # <<>>
    /\ ~response_call.done
    /\ response_call' = [response_call EXCEPT
                           !.done = TRUE,
                           !.out = image_data_list(response_call.response)]
    /\ UNCHANGED <<pipeline_vars, notif_vars, close_vars, progress_call, backoff_call, codec_call,
                   retry_call>>

NextResponse == create_image_read_response

SpecResponse == InitResponse /\ [][NextResponse]_vars

\* C25: the list create_image returns for a provider response has one
\* entry per image of the response, in the response's order; each entry
\* holds under "data" the bytes the provider encoded, which are not empty,
\* and media_type "image/png".
C25_OneEntryPerImage ==
    response_call.done =>
        /\ Len(response_call.out) = Len(response_call.response)
        /\ \A i \in 1..Len(response_call.out) :
              /\ response_call.out[i].data = response_call.images[i]
              /\ Len(response_call.out[i].data) > 0
              /\ response_call.out[i].media_type = "image/png"

\* two images of different lengths, the first ending in a padded group
C25_Witness ==
    /\ response_call.done
    /\ Len(response_call.out) = 2
    /\ response_call.out[1].data = <<137>>
    /\ response_call.out[2].data = <<137, 0, 255>>
    /\ response_call.response[1].b64_json = <<34, 16, Pad, Pad>>

\* ---------------------------------------------------------------------
\* the backoff sleeps of create_image (specification Spec)
\* ---------------------------------------------------------------------
TimedOutAttempts == {i \in 1..Len(outcomes) : outcomes[i] \in Timeouts}

\* C26: in create_image there is exactly one backoff sleep between a
\* timed-out attempt and the attempt that follows it and none after the
\* last attempt: while an attempt runs every earlier attempt has been slept
\* after, during a sleep every attempt so far has, and a call that ended in
\* the final TimeoutError made max_retries + 1 attempts and slept
\* max_retries times.
C26_OneSleepPerRetry ==
    /\ llm_pc = "attempt" =>
          Len(sleeps) = Len(outcomes) /\ TimedOutAttempts = 1..Len(outcomes)
    /\ llm_pc = "sleep" =>
          Len(sleeps) = Len(outcomes) /\ TimedOutAttempts = 1..Len(outcomes)
    /\ llm_pc = "returned" => Len(sleeps) = Len(outcomes) - 1
    /\ (llm_pc = "raised" /\ llm_exc = "TimeoutError") =>
          /\ Len(outcomes) = max_retries + 1
          /\ TimedOutAttempts = 1..Len(outcomes)
          /\ Len(sleeps) = max_retries

\* three retries allowed, four attempts timed out, three sleeps
C26_Witness ==
    /\ max_retries = 3
    /\ llm_pc = "raised"
    /\ llm_exc = "TimeoutError"
    /\ Len(outcomes) = 4
    /\ Len(sleeps) = 3

\* C27 (as claimed): the sleep that follows the timed-out attempt with
\* zero-based index i is calculate_backoff_delay(i); sleeps[j] is the
\* argument of the call made after attempt j (one-based), so it is j - 1.
C27_SleepExponentIsAttemptIndex ==
    \A j \in 1..Len(sleeps) : sleeps[j] = j - 1

\* ======================================================================
\* The times of a create_image call all of whose attempts time out
\* (llm.py:119-179): the delays it sleeps and the total_time its final
\* TimeoutError reports.  calculate_backoff_delay is called with its
\* default base_delay 1.0 and jitter 0.1; every call draws anew.
\* ======================================================================
MaxRetryTimes == 2
DefaultBase == 1
DefaultJitter == 1

Draws == 0..DrawDen

RECURSIVE SumSeq(_)
SumSeq(q) == IF q = <<>> THEN 0 ELSE q[1] + SumSeq(Tail(q))

\* llm.py:173: sum(calculate_backoff_delay(i) for i in range(current_retry));
\* draw[i + 1] is the number drawn in the call for i
TotalTime(cr, draw) ==
    SumSeq([i \in 1..cr |-> BackoffDelay(DefaultBase, i - 1, DefaultJitter, draw[i])])

InitRetry ==
    /\ PipelineOff
    /\ CloseOff
    /\ NotifOff
    /\ progress_call = NoProgressCall
    /\ backoff_call = NoBackoffCall
    /\ codec_call = NoCodecCall
    /\ response_call = NoResponseCall
    /\ \E m \in 0..MaxRetryTimes :
          retry_call = [max_retries |-> m, current_retry |-> 0, pc |-> "attempt",
                        slept |-> <<>>, last_error |-> "none", total_time |-> 0,
                        reported_error |-> "none"]

\* llm.py:154-167: the attempt times out
retry_attempt_times_out ==
    /\ retry_call.pc = "attempt"
    /\ \E o \in {"api_timeout", "deadline"}, k \in Draws :
          LET cr == retry_call.current_retry + 1
          IN  /\ IsTimeout(o)
              /\ retry_call' =
                   IF SleepGuard(cr, retry_call.max_retries)
                   THEN [retry_call EXCEPT
                           !.last_error = AttemptRaises(o),
                           !.current_retry = cr,
                           !.slept = Append(@, BackoffDelay(DefaultBase, cr,
                                                            DefaultJitter, k)),
                           !.pc = "sleep"]
                   ELSE [retry_call EXCEPT
                           !.last_error = AttemptRaises(o),
                           !.current_retry = cr,
                           !.pc = "break"]
    /\ UNCHANGED <<pipeline_vars, notif_vars, close_vars, progress_call, backoff_call, codec_call,
                   response_call>>

\* llm.py:165-166: the sleep ends, "continue"
retry_sleep_ends ==
    /\ retry_call.pc = "sleep"
    /\ retry_call' =
         [retry_call EXCEPT
            !.pc = IF LoopGuard(retry_call.current_retry, retry_call.max_retries)
                   THEN "attempt" ELSE "break"]
    /\ UNCHANGED <<pipeline_vars, notif_vars, close_vars, progress_call, backoff_call, codec_call,
                   response_call>>

\* llm.py:173-179: total_time, the message, raise TimeoutError(error_msg)
retry_raise_timeout ==
    /\ retry_call.pc = "break"
    /\ \E draw \in [1..retry_call.current_retry -> Draws] :
          retry_call' =
             [retry_call EXCEPT
                !.total_time = TotalTime(retry_call.current_retry, draw),
                !.reported_error = retry_call.last_error,
                !.pc = "raised"]
    /\ UNCHANGED <<pipeline_vars, notif_vars, close_vars, progress_call, backoff_call, codec_call,
                   response_call>>

NextRetry ==
    \/ retry_attempt_times_out
    \/ retry_sleep_ends
    \/ retry_raise_timeout

SpecRetry == InitRetry /\ [][NextRetry]_vars

\* C28 (as claimed): the total time the final TimeoutError of create_image
\* reports is the sum of the delays the call slept, and the error reports
\* the last timeout error observed.
C28_TotalTimeIsTimeSlept ==
    retry_call.pc = "raised" =>
        /\ retry_call.total_time = SumSeq(retry_call.slept)
        /\ retry_call.reported_error = retry_call.last_error
        /\ retry_call.reported_error \in {"APITimeoutError", "TimeoutError"}

\* ---------------------------------------------------------------------
\* further properties of the NotificationManager (specification SpecNotify)
\* ---------------------------------------------------------------------

C30_ProgressAfterEachImage ==
    [][ (/\ h_pc = "process"
         /\ TokenUsed
         /\ idx' = idx + 1
         /\ Len(results') = Len(results) + 2) =>
            /\ Len(events') = Len(events) + 1
            /\ Last(events').progress = Units(50) + 50 * idx'
            /\ Last(events').total = Units(100)
            /\ idx' = n => Last(events').progress = Last(events').total ]_vars

\* ---------------------------------------------------------------------
\* further properties of the codec (specification SpecCodec)
\* ---------------------------------------------------------------------
MaxSearchEncodes == 7

\* the encodes made by the while loop of binary_search_quality
LoopEncodes ==
    codec_call.out.search.encodes
        - (IF codec_call.out.search.fallback THEN 1 ELSE 0)

\* C32: every call of binary_search_quality over the qualities 30..95 ends
\* after at most 7 encodes in its search loop, whatever the image and
\* whether or not any quality fits; the minimum-quality fallback adds at
\* most one encode.
C32_AtMostSevenEncodes ==
    (codec_call.done /\ codec_call.out.search.called) =>
        /\ LoopEncodes >= 1
        /\ LoopEncodes <= MaxSearchEncodes
        /\ codec_call.out.search.encodes <= LoopEncodes + 1
        /\ codec_call.out.search.encodes <= MaxSearchEncodes + 1

\* the budget is met at quality 95 only after seven encodes
C32_Witness ==
    /\ codec_call.done
    /\ codec_call.out.search.called
    /\ ~codec_call.out.search.fallback
    /\ codec_call.out.search.encodes = MaxSearchEncodes
    /\ codec_call.out.search.quality = MaxQuality

\* C33 (as claimed): the quality binary_search_quality returns with JPEG
\* bytes is the quality those bytes were encoded at, also when the
\* minimum-quality fallback made them.
C33_ReturnedQualityIsEncodedQuality ==
    (/\ codec_call.done
     /\ codec_call.out.search.called
     /\ codec_call.out.search.data.format = "JPEG") =>
        codec_call.out.search.quality = codec_call.out.search.data.quality

\* ---------------------------------------------------------------------
\* the progress token (specification Spec)
\* ---------------------------------------------------------------------

\* C31 (as claimed): a request that carries a progress token, the integer
\* 0 and the empty string included, and whose handler went through image
\* generation to its return, has had progress events emitted.
C31_FalsyTokenGetsProgress ==
    (/\ HandlerDone
     /\ h_out = "returned"
     /\ h_exc = "none"
     /\ llm_pc = "returned"
     /\ progress_token \in {"falsy", "truthy"}) =>
        events # <<>>

\* C35 (as claimed): while the handler with a NotificationManager still has
\* send_notification calls ahead of it (the 50% event after create_image,
\* the event after each image, the terminal event), the manager is open.
C35_ManagerOpenAtEverySend ==
    (/\ impl = "mgr"
     /\ notification_mgr # "none"
     /\ h_pc \in {"call", "process"}) =>
        notification_mgr = "open"

\* ------------------------------------------ LLMConnector.close, shutdown
\* Tasks of one event loop: a step runs from one suspension point to the
\* next.  A call of close() and the tests at its head run in the step of the
\* caller, and the finally clause runs in the step that ends the try block.
\* Cancellation comes from the one place the source issues it: the
\* move_on_after deadline of shutdown().  fail_after is entered with
\* "async with" (llm.py:205): a build whose anyio offers no asynchronous form
\* raises TypeError there, a build that offers it runs the block.

\* the three close attempts, in order
close_attempts ==
    <<"_close_client_direct", "_close_http_session", "_close_connection_pools">>

ExitPaths == {"returned", "TimeoutError", "Exception", "CancelledError"}

\* the closed test skipped
AlreadyClosedNever(obj) == FALSE
\* "if self._closed: return"
AlreadyClosed(obj) == obj.closed

\* the closing test skipped
AlreadyClosingNever(obj) == FALSE
\* "if self._closing: await self._close_event.wait(); return"
AlreadyClosing(obj) == obj.closing

\* the flags written only when the try block ends normally
FinallyRunsOnReturn(outcome) == outcome = "returned"
\* the finally clause runs however the try block ends
FinallyRuns(outcome) == outcome \in ExitPaths

\* the event left clear
SetEventMissing(obj) == obj
\* "self._close_event.set()"
SetEvent(obj) == [obj EXCEPT !.close_event = TRUE]

\* finally: _closed = True, _closing = False, _close_event.set()
Finally(obj, outcome) ==
    IF FinallyRuns(outcome)
    THEN SetEvent([obj EXCEPT !.closed = TRUE, !.closing = FALSE])
    ELSE obj

\* close() from its first line to its first suspension, called as call c:
\* the connector afterwards and where the call stands
CloseEnter(conn, c, accepted) ==
    IF AlreadyClosed(conn)
    THEN [conn |-> conn,
          call |-> [pc |-> "returned", found |-> "closed", attempt |-> 0]]
    ELSE IF AlreadyClosing(conn)
    THEN [conn |-> conn,
          call |-> [pc |-> "waiting", found |-> "closing", attempt |-> 0]]
    ELSE IF accepted
    THEN [conn |-> [conn EXCEPT !.closing = TRUE, !.ran = @ \cup {c}],
          call |-> [pc |-> "attempt", found |-> "open", attempt |-> 1]]
    ELSE [conn |-> Finally([conn EXCEPT !.closing = TRUE], "Exception"),
          call |-> [pc |-> "Exception", found |-> "open", attempt |-> 0]]

\* what shutdown() does with the way connector.close() ended: an exception
\* is raised again, a cancelled scope becomes TimeoutError (openai.py:132)
ShutdownOutcome(outcome) ==
    IF outcome = "CancelledError" THEN "TimeoutError" ELSE outcome

IsNested(c) == c \notin DirectCalls
ShutdownOf(c) == c - MaxCloses

\* call c stops being suspended: it goes on as "call" with the connector
\* "conn"; a shutdown() awaiting it goes on to its own finally in the same step
CloseContinues(c, conn, call) ==
    /\ connector' = conn
    /\ close_call' = [close_call EXCEPT ![c] = call]
    /\ IF IsNested(c) /\ call.pc \in ExitPaths
       THEN /\ server' = Finally(server, ShutdownOutcome(call.pc))
            /\ shutdown_call' =
                   [shutdown_call EXCEPT ![ShutdownOf(c)].pc = ShutdownOutcome(call.pc)]
       ELSE UNCHANGED <<server, shutdown_call>>

InitClose ==
    /\ PipelineOff
    /\ NotifOff
    /\ progress_call = NoProgressCall
    /\ backoff_call = NoBackoffCall
    /\ codec_call = NoCodecCall
    /\ response_call = NoResponseCall
    /\ retry_call = NoRetryCall
    /\ connector = NewConnector
    /\ server = NewServer
    /\ close_call = [c \in CloseCalls |-> [pc |-> "idle", found |-> "none", attempt |-> 0]]
    /\ shutdown_call = [c \in ShutdownCalls |-> [pc |-> "idle", found |-> "none"]]
    /\ tool_request = [r \in Requests |-> NoRequest]

\* a server whose connector is closed by shutdown() alone, and its requests
InitServe ==
    /\ PipelineOff
    /\ NotifOff
    /\ progress_call = NoProgressCall
    /\ backoff_call = NoBackoffCall
    /\ codec_call = NoCodecCall
    /\ response_call = NoResponseCall
    /\ retry_call = NoRetryCall
    /\ connector = NewConnector
    /\ server = NewServer
    /\ close_call = [c \in CloseCalls |->
                        [pc |-> IF IsNested(c) THEN "idle" ELSE "off",
                         found |-> "none", attempt |-> 0]]
    /\ shutdown_call = [c \in ShutdownCalls |-> [pc |-> "idle", found |-> "none"]]
    /\ tool_request = [r \in Requests |-> [NoRequest EXCEPT !.pc = "idle"]]

close_unchanged == <<pipeline_vars, notif_vars, calc_vars>>

\* a task calls connector.close()
connector_close(c) ==
    /\ c \in DirectCalls
    /\ close_call[c].pc = "idle"
    /\ \E accepted \in BOOLEAN :
          LET r == CloseEnter(connector, c, accepted)
          IN  CloseContinues(c, r.conn, r.call)
    /\ UNCHANGED <<close_unchanged, tool_request>>

\* one close attempt ends, by returning or by an exception that is logged
close_attempt(c) ==
    /\ close_call[c].pc = "attempt"
    /\ IF close_call[c].attempt < Len(close_attempts)
       THEN CloseContinues(c, connector,
                           [close_call[c] EXCEPT !.attempt = @ + 1])
       ELSE CloseContinues(c, Finally(connector, "returned"),
                           [close_call[c] EXCEPT !.pc = "returned"])
    /\ UNCHANGED <<close_unchanged, tool_request>>

\* the fail_after deadline passes during a close attempt
close_timeout(c) ==
    /\ close_call[c].pc = "attempt"
    /\ CloseContinues(c, Finally(connector, "TimeoutError"),
                      [close_call[c] EXCEPT !.pc = "TimeoutError"])
    /\ UNCHANGED <<close_unchanged, tool_request>>

\* the close event is set: a waiting close() returns
close_wake(c) ==
    /\ close_call[c].pc = "waiting"
    /\ connector.close_event
    /\ CloseContinues(c, connector, [close_call[c] EXCEPT !.pc = "returned"])
    /\ UNCHANGED <<close_unchanged, tool_request>>

\* a task calls server.shutdown()
shutdown(s) ==
    /\ shutdown_call[s].pc = "idle"
    /\ IF AlreadyClosed(server)
       THEN /\ shutdown_call' = [shutdown_call EXCEPT
                                    ![s] = [pc |-> "returned", found |-> "closed"]]
            /\ UNCHANGED <<server, connector, close_call>>
       ELSE IF AlreadyClosing(server)
       THEN /\ shutdown_call' = [shutdown_call EXCEPT
                                    ![s] = [pc |-> "waiting", found |-> "closing"]]
            /\ UNCHANGED <<server, connector, close_call>>
       ELSE \E accepted \in BOOLEAN :
               LET c == Nested(s)
                   r == CloseEnter(connector, c, accepted)
                   started == [server EXCEPT !.closing = TRUE]
               IN  /\ connector' = r.conn
                   /\ close_call' = [close_call EXCEPT ![c] = r.call]
                   /\ IF r.call.pc \in ExitPaths
                      THEN /\ server' = Finally(started, ShutdownOutcome(r.call.pc))
                           /\ shutdown_call' =
                                  [shutdown_call EXCEPT
                                      ![s] = [pc |-> ShutdownOutcome(r.call.pc),
                                              found |-> "open"]]
                      ELSE /\ server' = started
                           /\ shutdown_call' =
                                  [shutdown_call EXCEPT
                                      ![s] = [pc |-> "connector_close",
                                              found |-> "open"]]
    /\ UNCHANGED <<close_unchanged, tool_request>>

\* the move_on_after deadline passes while shutdown() awaits connector.close()
shutdown_deadline(s) ==
    /\ shutdown_call[s].pc = "connector_close"
    /\ LET c == Nested(s)
       IN  CloseContinues(c,
                          IF close_call[c].pc = "attempt"
                          THEN Finally(connector, "CancelledError")
                          ELSE connector,
                          [close_call[c] EXCEPT !.pc = "CancelledError"])
    /\ UNCHANGED <<close_unchanged, tool_request>>

\* the server's close event is set: a waiting shutdown() returns
shutdown_wake(s) ==
    /\ shutdown_call[s].pc = "waiting"
    /\ server.close_event
    /\ shutdown_call' = [shutdown_call EXCEPT ![s].pc = "returned"]
    /\ UNCHANGED <<close_unchanged, connector, server, close_call, tool_request>>

\* server closed only
ServerUnavailableClosedOnly(srv) == srv.closed
\* "if self._closed or self._closing"
ServerUnavailable(srv) == srv.closed \/ srv.closing

\* _handle_tool_request up to its first suspension
handle_tool_request(r) ==
    /\ tool_request[r].pc = "idle"
    /\ IF ServerUnavailable(server)
       THEN tool_request' = [tool_request EXCEPT
                ![r] = [pc |-> "done", late |-> server.closed \/ server.closing,
                        isError |-> TRUE, handler_called |-> FALSE,
                        connector_called |-> FALSE]]
       ELSE \E known \in BOOLEAN :
               tool_request' = [tool_request EXCEPT
                   ![r] = [pc |-> IF known THEN "handler" ELSE "done",
                           late |-> server.closed \/ server.closing,
                           isError |-> ~known,
                           handler_called |-> known,
                           connector_called |-> FALSE]]
    /\ UNCHANGED <<close_unchanged, connector, server, close_call, shutdown_call>>

\* the tool handler calls the connector (ask_openai / create_image)
handler_calls_connector(r) ==
    /\ tool_request[r].pc = "handler"
    /\ tool_request' = [tool_request EXCEPT ![r].pc = "connector",
                                            ![r].connector_called = TRUE]
    /\ UNCHANGED <<close_unchanged, connector, server, close_call, shutdown_call>>

\* the tool handler returns its content or raises
handler_ends(r) ==
    /\ tool_request[r].pc \in {"handler", "connector"}
    /\ \E raised \in BOOLEAN :
          tool_request' = [tool_request EXCEPT ![r].pc = "done",
                                               ![r].isError = raised]
    /\ UNCHANGED <<close_unchanged, connector, server, close_call, shutdown_call>>

NextClose ==
    \/ \E c \in CloseCalls : connector_close(c)
    \/ \E c \in CloseCalls : close_attempt(c)
    \/ \E c \in CloseCalls : close_timeout(c)
    \/ \E c \in CloseCalls : close_wake(c)
    \/ \E s \in ShutdownCalls : shutdown(s)
    \/ \E s \in ShutdownCalls : shutdown_deadline(s)
    \/ \E s \in ShutdownCalls : shutdown_wake(s)

SpecClose == InitClose /\ [][NextClose]_vars

NextServe ==
    \/ \E s \in ShutdownCalls : shutdown(s)
    \/ \E c \in CloseCalls : close_attempt(c)
    \/ \E c \in CloseCalls : close_timeout(c)
    \/ \E s \in ShutdownCalls : shutdown_deadline(s)
    \/ \E s \in ShutdownCalls : shutdown_wake(s)
    \/ \E r \in Requests : handle_tool_request(r)
    \/ \E r \in Requests : handler_calls_connector(r)
    \/ \E r \in Requests : handler_ends(r)

SpecServe == InitServe /\ [][NextServe]_vars

\* the event loop runs a task whose awaited event is set
SpecCloseFair ==
    /\ InitClose
    /\ [][NextClose]_vars
    /\ \A c \in CloseCalls : WF_vars(close_wake(c))

\* the close() calls that went past both tests and took the closing role
FirstClosers == {c \in CloseCalls : close_call[c].found = "open"}
\* the shutdown() calls that went past both tests
FirstShutdowns == {s \in ShutdownCalls : shutdown_call[s].found = "open"}

\* C34 (as claimed): a close() call that finds the connector closing, and a
\* shutdown() call that finds the server closing, raises RuntimeError.
C34_SecondCallRaisesRuntimeError ==
    /\ \A c \in CloseCalls :
          close_call[c].found = "closing" => close_call[c].pc = "RuntimeError"
    /\ \A s \in ShutdownCalls :
          shutdown_call[s].found = "closing" => shutdown_call[s].pc = "RuntimeError"

\* C36: however the close() calls on the connector and the shutdown() calls
\* on the server interleave, at most one close() call starts the client-close
\* sequence and at most one shutdown() call goes on to close the connector.
C36_OneCloserOnly ==
    /\ Cardinality(connector.ran) <= 1
    /\ connector.ran \subseteq FirstClosers
    /\ Cardinality(FirstShutdowns) <= 1

\* a close() call and a shutdown() call each found the first one at work
C36_Witness ==
    /\ Cardinality(connector.ran) = 1
    /\ \E c \in CloseCalls : close_call[c].found = "closing"
    /\ \E s \in ShutdownCalls : shutdown_call[s].found = "closing"

\* C37: a close() call that waits because the connector is closing returns
\* once the close event is set by the first closer, however that one ended;
\* the close() call made by shutdown() may instead be cancelled by the
\* shutdown deadline.
C37_WaitingCloseReturns ==
    \A c \in CloseCalls :
        (close_call[c].pc = "waiting" /\ connector.closed) ~>
            \/ close_call[c].pc = "returned"
            \/ IsNested(c) /\ close_call[c].pc = "CancelledError"

\* a call that waited has returned after the first closer timed out
C37_Witness ==
    \E c, f \in CloseCalls :
        /\ close_call[c].found = "closing"
        /\ close_call[c].pc = "returned"
        /\ close_call[f].found = "open"
        /\ close_call[f].pc = "TimeoutError"

\* C38: when the close() call that did the closing has ended, by returning,
\* by TimeoutError or by another exception, the connector has _closed true,
\* _closing false and the close event set.
C38_FirstCloseLeavesClosed ==
    \A c \in FirstClosers :
        close_call[c].pc \in ExitPaths =>
            /\ connector.closed
            /\ ~connector.closing
            /\ connector.close_event

\* the first closer ended by TimeoutError
C38_Witness ==
    \E c \in FirstClosers : close_call[c].pc = "TimeoutError" /\ ~connector.closing

\* C39: a tool request that reaches _handle_tool_request when the server is
\* closing or closed gets an error result, and neither a tool handler nor
\* the connector is called for it.
C39_LateRequestRefused ==
    \A r \in Requests :
        tool_request[r].late =>
            /\ tool_request[r].pc = "done"
            /\ tool_request[r].isError
            /\ ~tool_request[r].handler_called
            /\ ~tool_request[r].connector_called

\* a request arrived while shutdown() was still awaiting the connector
C39_Witness ==
    \E r \in Requests : tool_request[r].late /\ server.closing

\* C40: between steps the connector never has _closing and _closed both
\* true, nor has the server, and _closed never goes back to false.
C40_ClosingClosedApart ==
    /\ [](/\ ~(connector.closing /\ connector.closed)
          /\ ~(server.closing /\ server.closed))
    /\ [][/\ connector.closed => connector'.closed
          /\ server.closed => server'.closed]_vars

\* close() and shutdown() were called again after the closing was over
C40_Witness ==
    /\ connector.closed
    /\ server.closed
    /\ \E c \in DirectCalls : close_call[c].found = "closed"
    /\ \E s \in ShutdownCalls : shutdown_call[s].found = "closed"
====
